---- MODULE Spec2Model ----
(***************************************************************************)
(* CSPDarknet-53 backbone of YOLOX (yolox-burn/src/model/darknet.rs).      *)
(*                                                                         *)
(* f64 arguments are fixed-point numbers in thousandths (0.33 is 330).     *)
(* Option<T> is a sequence: None is <<>> and Some(v) is <<v>>.             *)
(* A tensor is the sequence of what produced it: an input token followed   *)
(* by the layers applied to it, in order.                                  *)
(***************************************************************************)
EXTENDS Integers, Sequences, FiniteSets, TLC

VARIABLES
    args,          \* Option<[depth, width]>: the arguments of CspDarknetConfig::new
    built,         \* the stage configs CspDarknetConfig::new has built, in order
    cfg,           \* Option<CspDarknetConfig>
    record,        \* Option<CspDarknetRecord>: the record handed to init_with
    net,           \* Option<CspDarknet>
    input,         \* Option<Tensor>: the argument of CspDarknet::forward
    features,      \* Option<DarknetFeatures>
    calls,         \* the stage calls of the last CspDarknet::forward
    blockArgs,     \* Option<[in_channels, out_channels, depth, spp]>
    blockCfg,      \* Option<CspBlockConfig> (a block built on its own)
    blockRecord,   \* Option<CspBlockRecord>
    block,         \* Option<CspBlock>
    blockInput,    \* Option<Tensor>: the argument of CspBlock::forward
    blockOut,      \* Option<Tensor>: the result of CspBlock::forward
    blockCalls,    \* the layer calls of the last CspBlock::forward
    panic          \* <<>> or the panic message and its argument

vars == <<args, built, cfg, record, net, input, features, calls,
          blockArgs, blockCfg, blockRecord, block, blockInput, blockOut,
          blockCalls, panic>>

darknetVars == <<args, built, cfg, record, net, input, features, calls>>
blockVars == <<blockArgs, blockCfg, blockRecord, block, blockInput, blockOut,
               blockCalls>>

None == <<>>
Some(v) == <<v>>
Unwrap(o) == o[1]

(***************************************************************************)
(* Bounds of the model.                                                    *)
(***************************************************************************)
MaxDepthMilli == 1500    \* depth arguments: 0.00, 0.01, ... up to this
MaxWidthMilli == 1500    \* width arguments: 0.000, 0.125, ... up to this
MaxRecord == 2           \* distinct weight records
MaxInput == 2            \* distinct input tensors
MaxChannels == 2         \* channel counts of a block built on its own
MaxRepeat == 1           \* bottleneck repeats of a block built on its own

DepthInputs == {d \in 0..MaxDepthMilli : d % 10 = 0}
WidthInputs == {w \in 0..MaxWidthMilli : w % 125 = 0}
Inputs == {<<[input |-> i]>> : i \in 1..MaxInput}

(***************************************************************************)
(* The layers darknet.rs assembles (blocks.rs, bottleneck.rs): a config    *)
(* keeps its constructor's arguments, a module keeps its config and where  *)
(* its weights came from, forward appends the module to the tensor.        *)
(***************************************************************************)
expand(num_channels, factor) == (num_channels * factor) \div 1000

FocusConfigNew(in_channels, out_channels, kernel_size, stride) ==
    [kind |-> "Focus", in_channels |-> in_channels,
     out_channels |-> out_channels, kernel_size |-> kernel_size,
     stride |-> stride]

BaseConvConfigNew(in_channels, out_channels, kernel_size, stride, groups) ==
    [kind |-> "BaseConv", in_channels |-> in_channels,
     out_channels |-> out_channels, kernel_size |-> kernel_size,
     stride |-> stride, groups |-> groups]

CspBottleneckConfigNew(in_channels, out_channels, num_blocks, expansion, shortcut) ==
    [kind |-> "CspBottleneck", in_channels |-> in_channels,
     out_channels |-> out_channels, num_blocks |-> num_blocks,
     expansion |-> expansion, shortcut |-> shortcut]

SppBottleneckConfigNew(in_channels, out_channels) ==
    [kind |-> "SppBottleneck", in_channels |-> in_channels,
     out_channels |-> out_channels]

LayerInit(config) == [config |-> config, weights |-> <<"device">>]

LayerInitWith(config, rec) == [config |-> config, weights |-> <<"record", rec>>]

LayerForward(layer, x) == Append(x, layer)

(***************************************************************************)
(* CspBlockConfig                                                          *)
(***************************************************************************)
CspBlockConfigNew(in_channels, out_channels, depth, spp) ==
    LET conv == BaseConvConfigNew(in_channels, out_channels, 3, 2, 1)
        c3 == CspBottleneckConfigNew(out_channels, out_channels, depth, 500, ~spp)
    IN  [conv |-> conv,
         c3 |-> c3,
         spp |-> IF spp
                 THEN Some(SppBottleneckConfigNew(out_channels, out_channels))
                 ELSE None]

(***************************************************************************)
(* CspBlockConfig::init, CspBlockConfig::init_with: the outcome of         *)
(* init_with is the panic (<<>> when none) and the block returned.         *)
(***************************************************************************)
SppExpectMessage == <<"Should initialize SppBottleneck block with record.">>

CspBlockConfigInit(self) ==
    [conv |-> LayerInit(self.conv),
     c3 |-> LayerInit(self.c3),
     spp |-> IF self.spp # None THEN Some(LayerInit(Unwrap(self.spp))) ELSE None]

\* Mutant: a missing spp record falls back to a fresh SppBottleneck.
CspBlockConfigInitWith_FallsBackToInit(self, rec) ==
    [panic |-> <<>>,
     block |-> Some([conv |-> LayerInitWith(self.conv, rec.conv),
                     c3 |-> LayerInitWith(self.c3, rec.c3),
                     spp |-> IF self.spp = None THEN None
                             ELSE IF rec.spp = None
                             THEN Some(LayerInit(Unwrap(self.spp)))
                             ELSE Some(LayerInitWith(Unwrap(self.spp), Unwrap(rec.spp)))])]

CspBlockConfigInitWith(self, rec) ==
    IF self.spp # None /\ rec.spp = None
    THEN [panic |-> SppExpectMessage, block |-> None]
    ELSE [panic |-> <<>>,
          block |-> Some([conv |-> LayerInitWith(self.conv, rec.conv),
                          c3 |-> LayerInitWith(self.c3, rec.c3),
                          spp |-> IF self.spp # None
                                  THEN Some(LayerInitWith(Unwrap(self.spp), Unwrap(rec.spp)))
                                  ELSE None])]

(***************************************************************************)
(* CspBlock::forward: the result and the layer calls made, in order.       *)
(***************************************************************************)
\* Mutant: the SppBottleneck is applied after c3 instead of before it.
CspBlockForward_SppLast(self, x) ==
    LET x1 == LayerForward(self.conv, x)
        x2 == LayerForward(self.c3, x1)
        x3 == IF self.spp # None THEN LayerForward(Unwrap(self.spp), x2) ELSE x2
    IN  [out |-> x3,
         calls |-> <<[field |-> "conv", layer |-> self.conv, input |-> x, output |-> x1],
                     [field |-> "c3", layer |-> self.c3, input |-> x1, output |-> x2]>>
                   \o (IF self.spp # None
                       THEN <<[field |-> "spp", layer |-> Unwrap(self.spp),
                               input |-> x2, output |-> x3]>>
                       ELSE <<>>)]

CspBlockForward(self, x) ==
    LET x1 == LayerForward(self.conv, x)
        x2 == IF self.spp # None THEN LayerForward(Unwrap(self.spp), x1) ELSE x1
        x3 == LayerForward(self.c3, x2)
    IN  [out |-> x3,
         calls |-> <<[field |-> "conv", layer |-> self.conv, input |-> x, output |-> x1]>>
                   \o (IF self.spp # None
                       THEN <<[field |-> "spp", layer |-> Unwrap(self.spp),
                               input |-> x1, output |-> x2]>>
                       ELSE <<>>)
                   \o <<[field |-> "c3", layer |-> self.c3, input |-> x2, output |-> x3]>>]

(***************************************************************************)
(* CspDarknetConfig::new: the outcome is the panic (<<>> when none), the   *)
(* stage configs built so far and the config returned.                     *)
(***************************************************************************)
\* Mutant: the largest depth is missing from the accepted list.
DepthValues_Without133 == {330, 670, 1000}

DepthValues == {330, 670, 1000, 1330}

WidthValues == {250, 375, 500, 750, 1000, 1250}

RoundToUsize(milli) == IF milli < 0 THEN 0 ELSE (milli + 500) \div 1000

Max(a, b) == IF a >= b THEN a ELSE b

BaseChannels(width) == expand(64, width)

\* Mutant: the product is truncated by the cast instead of rounded first.
BaseDepth_Truncated(depth) == Max((depth * 3) \div 1000, 1)

BaseDepth(depth) == Max(RoundToUsize(depth * 3), 1)

StemConfig(base_channels) == FocusConfigNew(3, base_channels, 3, 1)

Dark2Config(base_channels, base_depth) ==
    CspBlockConfigNew(base_channels, base_channels * 2, base_depth, FALSE)

\* Mutant: dark3 takes the stem's channel count instead of dark2's.
Dark3Config_WrongInChannels(base_channels, base_depth) ==
    CspBlockConfigNew(base_channels, base_channels * 4, base_depth * 3, FALSE)

Dark3Config(base_channels, base_depth) ==
    CspBlockConfigNew(base_channels * 2, base_channels * 4, base_depth * 3, FALSE)

\* Mutant: dark4 is given an SppBottleneck too.
Dark4Config_WithSpp(base_channels, base_depth) ==
    CspBlockConfigNew(base_channels * 4, base_channels * 8, base_depth * 3, TRUE)

Dark4Config(base_channels, base_depth) ==
    CspBlockConfigNew(base_channels * 4, base_channels * 8, base_depth * 3, FALSE)

Dark5Config(base_channels, base_depth) ==
    CspBlockConfigNew(base_channels * 8, base_channels * 16, base_depth, TRUE)

CspDarknetConfigNew(depth, width) ==
    IF depth \notin DepthValues
    THEN [panic |-> <<"invalid depth value", depth>>, built |-> <<>>, config |-> None]
    ELSE IF width \notin WidthValues
    THEN [panic |-> <<"invalid width value", width>>, built |-> <<>>, config |-> None]
    ELSE
    LET base_channels == BaseChannels(width)
        base_depth == BaseDepth(depth)
    IN  [panic |-> <<>>,
         built |-> <<"stem", "dark2", "dark3", "dark4", "dark5">>,
         config |-> Some([stem |-> StemConfig(base_channels),
                          dark2 |-> Dark2Config(base_channels, base_depth),
                          dark3 |-> Dark3Config(base_channels, base_depth),
                          dark4 |-> Dark4Config(base_channels, base_depth),
                          dark5 |-> Dark5Config(base_channels, base_depth)])]

(***************************************************************************)
(* CspDarknetConfig::init, CspDarknetConfig::init_with: the fields are     *)
(* initialized in the order written, so the first panic is the outcome.    *)
(***************************************************************************)
CspDarknetConfigInit(self) ==
    [stem |-> LayerInit(self.stem),
     dark2 |-> CspBlockConfigInit(self.dark2),
     dark3 |-> CspBlockConfigInit(self.dark3),
     dark4 |-> CspBlockConfigInit(self.dark4),
     dark5 |-> CspBlockConfigInit(self.dark5)]

CspDarknetConfigInitWith(self, rec) ==
    LET dark2 == CspBlockConfigInitWith(self.dark2, rec.dark2)
        dark3 == CspBlockConfigInitWith(self.dark3, rec.dark3)
        dark4 == CspBlockConfigInitWith(self.dark4, rec.dark4)
        dark5 == CspBlockConfigInitWith(self.dark5, rec.dark5)
    IN  IF dark2.panic # <<>> THEN [panic |-> dark2.panic, net |-> None]
        ELSE IF dark3.panic # <<>> THEN [panic |-> dark3.panic, net |-> None]
        ELSE IF dark4.panic # <<>> THEN [panic |-> dark4.panic, net |-> None]
        ELSE IF dark5.panic # <<>> THEN [panic |-> dark5.panic, net |-> None]
        ELSE [panic |-> <<>>,
              net |-> Some([stem |-> LayerInitWith(self.stem, rec.stem),
                            dark2 |-> Unwrap(dark2.block),
                            dark3 |-> Unwrap(dark3.block),
                            dark4 |-> Unwrap(dark4.block),
                            dark5 |-> Unwrap(dark5.block)])]

(***************************************************************************)
(* CspDarknet::forward: the features returned and the stage calls made.    *)
(***************************************************************************)
\* Mutant: dark5 is fed the output of dark3 instead of that of dark4.
CspDarknetForward_Dark5FromF1(self, x) ==
    LET x1 == LayerForward(self.stem, x)
        x2 == CspBlockForward(self.dark2, x1).out
        f1 == CspBlockForward(self.dark3, x2).out
        f2 == CspBlockForward(self.dark4, f1).out
        f3 == CspBlockForward(self.dark5, f1).out
    IN  [features |-> <<f1, f2, f3>>,
         calls |-> <<[stage |-> "stem", module |-> self.stem, input |-> x, output |-> x1],
                     [stage |-> "dark2", module |-> self.dark2, input |-> x1, output |-> x2],
                     [stage |-> "dark3", module |-> self.dark3, input |-> x2, output |-> f1],
                     [stage |-> "dark4", module |-> self.dark4, input |-> f1, output |-> f2],
                     [stage |-> "dark5", module |-> self.dark5, input |-> f1, output |-> f3]>>]

CspDarknetForward(self, x) ==
    LET x1 == LayerForward(self.stem, x)
        x2 == CspBlockForward(self.dark2, x1).out
        f1 == CspBlockForward(self.dark3, x2).out
        f2 == CspBlockForward(self.dark4, f1).out
        f3 == CspBlockForward(self.dark5, f2).out
    IN  [features |-> <<f1, f2, f3>>,
         calls |-> <<[stage |-> "stem", module |-> self.stem, input |-> x, output |-> x1],
                     [stage |-> "dark2", module |-> self.dark2, input |-> x1, output |-> x2],
                     [stage |-> "dark3", module |-> self.dark3, input |-> x2, output |-> f1],
                     [stage |-> "dark4", module |-> self.dark4, input |-> f1, output |-> f2],
                     [stage |-> "dark5", module |-> self.dark5, input |-> f2, output |-> f3]>>]

(***************************************************************************)
(* Records handed to init_with: every weight of record r is tagged with r  *)
(* and the field it belongs to; a block record may lack its spp field.     *)
(***************************************************************************)
Weights(r, stage, field) == [id |-> r, stage |-> stage, field |-> field]

BlockRecordOf(r, stage, hasSpp) ==
    [conv |-> Weights(r, stage, "conv"),
     c3 |-> Weights(r, stage, "c3"),
     spp |-> IF hasSpp THEN Some(Weights(r, stage, "spp")) ELSE None]

DarknetRecords ==
    {[stem |-> Weights(r, "stem", "stem"),
      dark2 |-> BlockRecordOf(r, "dark2", "dark2" \in m),
      dark3 |-> BlockRecordOf(r, "dark3", "dark3" \in m),
      dark4 |-> BlockRecordOf(r, "dark4", "dark4" \in m),
      dark5 |-> BlockRecordOf(r, "dark5", "dark5" \in m)] :
        r \in 1..MaxRecord, m \in SUBSET {"dark2", "dark3", "dark4", "dark5"}}

BlockRecords == {BlockRecordOf(r, "block", s) : r \in 1..MaxRecord, s \in BOOLEAN}

(***************************************************************************)
(* State machine of the backbone: new, then init or init_with, then        *)
(* forward any number of times.                                            *)
(***************************************************************************)
Init ==
    /\ args = None
    /\ built = <<>>
    /\ cfg = None
    /\ record = None
    /\ net = None
    /\ input = None
    /\ features = None
    /\ calls = <<>>
    /\ blockArgs = None
    /\ blockCfg = None
    /\ blockRecord = None
    /\ block = None
    /\ blockInput = None
    /\ blockOut = None
    /\ blockCalls = <<>>
    /\ panic = <<>>

New(depth, width) ==
    /\ args = None
    /\ LET r == CspDarknetConfigNew(depth, width)
       IN  /\ args' = Some([depth |-> depth, width |-> width])
           /\ built' = r.built
           /\ cfg' = r.config
           /\ panic' = r.panic
    /\ UNCHANGED <<record, net, input, features, calls, blockVars>>

InitDevice ==
    /\ cfg # None
    /\ net = None
    /\ panic = <<>>
    /\ net' = Some(CspDarknetConfigInit(Unwrap(cfg)))
    /\ UNCHANGED <<args, built, cfg, record, input, features, calls, blockVars, panic>>

InitWith(rec) ==
    /\ cfg # None
    /\ net = None
    /\ panic = <<>>
    /\ LET r == CspDarknetConfigInitWith(Unwrap(cfg), rec)
       IN  /\ record' = Some(rec)
           /\ net' = r.net
           /\ panic' = r.panic
    /\ UNCHANGED <<args, built, cfg, input, features, calls, blockVars>>

Forward(x) ==
    /\ net # None
    /\ LET r == CspDarknetForward(Unwrap(net), x)
       IN  /\ input' = Some(x)
           /\ features' = Some(r.features)
           /\ calls' = r.calls
    /\ UNCHANGED <<args, built, cfg, record, net, blockVars, panic>>

Next ==
    \/ \E depth \in DepthInputs, width \in WidthInputs : New(depth, width)
    \/ InitDevice
    \/ \E rec \in DarknetRecords : InitWith(rec)
    \/ \E x \in Inputs : Forward(x)

Spec == Init /\ [][Next]_vars

(***************************************************************************)
(* State machine of a CspBlock built on its own: CspBlockConfig::new, then *)
(* init or init_with, then forward any number of times.                    *)
(***************************************************************************)
BlockNew(in_channels, out_channels, depth, spp) ==
    /\ blockArgs = None
    /\ blockArgs' = Some([in_channels |-> in_channels, out_channels |-> out_channels,
                          depth |-> depth, spp |-> spp])
    /\ blockCfg' = Some(CspBlockConfigNew(in_channels, out_channels, depth, spp))
    /\ UNCHANGED <<darknetVars, blockRecord, block, blockInput, blockOut, blockCalls, panic>>

BlockInit ==
    /\ blockCfg # None
    /\ block = None
    /\ panic = <<>>
    /\ block' = Some(CspBlockConfigInit(Unwrap(blockCfg)))
    /\ UNCHANGED <<darknetVars, blockArgs, blockCfg, blockRecord, blockInput, blockOut,
                   blockCalls, panic>>

BlockInitWith(rec) ==
    /\ blockCfg # None
    /\ block = None
    /\ panic = <<>>
    /\ LET r == CspBlockConfigInitWith(Unwrap(blockCfg), rec)
       IN  /\ blockRecord' = Some(rec)
           /\ block' = r.block
           /\ panic' = r.panic
    /\ UNCHANGED <<darknetVars, blockArgs, blockCfg, blockInput, blockOut, blockCalls>>

BlockForward(x) ==
    /\ block # None
    /\ LET r == CspBlockForward(Unwrap(block), x)
       IN  /\ blockInput' = Some(x)
           /\ blockOut' = Some(r.out)
           /\ blockCalls' = r.calls
    /\ UNCHANGED <<darknetVars, blockArgs, blockCfg, blockRecord, block, panic>>

BlockNext ==
    \/ \E i \in 1..MaxChannels, o \in 1..MaxChannels, d \in 0..MaxRepeat, s \in BOOLEAN :
          BlockNew(i, o, d, s)
    \/ BlockInit
    \/ \E rec \in BlockRecords : BlockInitWith(rec)
    \/ \E x \in Inputs : BlockForward(x)

BlockSpec == Init /\ [][BlockNext]_vars

(***************************************************************************)
(* Properties                                                              *)
(***************************************************************************)
BlockStages == <<"dark2", "dark3", "dark4", "dark5">>

\* C1: CspDarknetConfig::new(depth, width) returns a config exactly when
\* depth is one of 0.33, 0.67, 1.0, 1.33 and width is one of 0.25, 0.375,
\* 0.5, 0.75, 1.0, 1.25; any other depth panics with 'invalid depth value',
\* an accepted depth with any other width panics with 'invalid width value',
\* and in both cases no stage config has been built.
C1_NewAcceptsExactlyListedValues ==
    args # None =>
        LET depth == Unwrap(args).depth
            width == Unwrap(args).width
            okDepth == depth \in {330, 670, 1000, 1330}
            okWidth == width \in {250, 375, 500, 750, 1000, 1250}
        IN  /\ (cfg # None) <=> (okDepth /\ okWidth)
            /\ (okDepth /\ okWidth) => built # <<>>
            /\ ~okDepth =>
                  /\ panic = <<"invalid depth value", depth>>
                  /\ built = <<>>
            /\ (okDepth /\ ~okWidth) =>
                  /\ panic = <<"invalid width value", width>>
                  /\ built = <<>>

\* C1 witness: new was called with depth 1.33 and a width that is not
\* accepted, and panicked on the width.
C1_Witness ==
    /\ args # None
    /\ Unwrap(args).depth = 1330
    /\ Unwrap(args).width = 625
    /\ panic = <<"invalid width value", 625>>
    /\ cfg = None

\* C2: for every accepted (depth, width), new builds exactly the five stages
\* stem, dark2, dark3, dark4, dark5, and the SppBottleneck is configured (and
\* after init present) in dark5 and in no other block.
C2_FixedTopology ==
    cfg # None =>
        LET c == Unwrap(cfg)
        IN  /\ built = <<"stem", "dark2", "dark3", "dark4", "dark5">>
            /\ DOMAIN c = {"stem", "dark2", "dark3", "dark4", "dark5"}
            /\ c.stem.kind = "Focus"
            /\ \A i \in 1..4 :
                  /\ c[BlockStages[i]].conv.kind = "BaseConv"
                  /\ c[BlockStages[i]].c3.kind = "CspBottleneck"
                  /\ (c[BlockStages[i]].spp # None) <=> (BlockStages[i] = "dark5")
            /\ Unwrap(c.dark5.spp).kind = "SppBottleneck"
            /\ net # None =>
                  /\ DOMAIN Unwrap(net) = {"stem", "dark2", "dark3", "dark4", "dark5"}
                  /\ \A i \in 1..4 :
                        (Unwrap(net)[BlockStages[i]].spp # None) <=> (BlockStages[i] = "dark5")

\* C2 witness: the smallest accepted config (depth 0.33, width 0.25) was
\* built and a module initialized from it.
C2_Witness ==
    /\ cfg # None
    /\ net # None
    /\ Unwrap(args) = [depth |-> 330, width |-> 250]

\* C3: forward calls stem, dark2, dark3, dark4, dark5 in this order, each
\* once and each on the output of the previous one, and returns
\* (f1, f2, f3) = the outputs of (dark3, dark4, dark5); the outputs of stem
\* and dark2 are not returned.
C3_ForwardOrderAndFeatures ==
    features # None =>
        LET n == Unwrap(net)
            x == Unwrap(input)
            f == Unwrap(features)
            sppLayer == Unwrap(n.dark5.spp)
        IN  /\ [i \in 1..Len(calls) |-> calls[i].stage]
                  = <<"stem", "dark2", "dark3", "dark4", "dark5">>
            /\ \A i \in 1..Len(calls) : calls[i].module = n[calls[i].stage]
            /\ calls[1].input = x
            /\ \A i \in 1..(Len(calls) - 1) : calls[i + 1].input = calls[i].output
            /\ f = <<calls[3].output, calls[4].output, calls[5].output>>
            /\ f[1] = x \o <<n.stem, n.dark2.conv, n.dark2.c3, n.dark3.conv, n.dark3.c3>>
            /\ f[2] = f[1] \o <<n.dark4.conv, n.dark4.c3>>
            /\ f[3] = f[2] \o <<n.dark5.conv, sppLayer, n.dark5.c3>>
            /\ \A k \in 1..3 : f[k] \notin {calls[1].output, calls[2].output}

\* C3 witness: forward has run on a module loaded from a record.
C3_Witness ==
    /\ features # None
    /\ record # None
    /\ Len(calls) = 5

\* C4: CspBlock::forward applies conv first and c3 last, each once; an
\* SppBottleneck, when the block has one, is applied once between them, so
\* the result is c3(spp(conv(x))) with one and c3(conv(x)) without.
C4_BlockForwardOrder ==
    blockOut # None =>
        LET b == Unwrap(block)
            x == Unwrap(blockInput)
            fields == [i \in 1..Len(blockCalls) |-> blockCalls[i].field]
        IN  /\ blockCalls[1].input = x
            /\ \A i \in 1..(Len(blockCalls) - 1) :
                  blockCalls[i + 1].input = blockCalls[i].output
            /\ blockOut = Some(blockCalls[Len(blockCalls)].output)
            /\ \A i \in 1..Len(blockCalls) :
                  /\ blockCalls[i].output = Append(blockCalls[i].input, blockCalls[i].layer)
                  /\ Some(blockCalls[i].layer) = IF fields[i] = "spp" THEN b.spp
                                                 ELSE Some(b[fields[i]])
            /\ b.spp # None =>
                  /\ fields = <<"conv", "spp", "c3">>
                  /\ blockOut = Some(x \o <<b.conv, Unwrap(b.spp), b.c3>>)
            /\ b.spp = None =>
                  /\ fields = <<"conv", "c3">>
                  /\ blockOut = Some(x \o <<b.conv, b.c3>>)

\* C4 witness: forward has run on a block that has an SppBottleneck.
C4_Witness ==
    /\ blockOut # None
    /\ Unwrap(block).spp # None
    /\ Len(blockCalls) = 3

\* C5: base_depth = max(round(3 * depth), 1) is 1, 2, 3, 4 for depth 0.33,
\* 0.67, 1.0, 1.33; dark2 and dark5 repeat their bottleneck base_depth
\* times, dark3 and dark4 3 * base_depth times.
C5_RepeatCounts ==
    cfg # None =>
        LET c == Unwrap(cfg)
            depth == Unwrap(args).depth
            base_depth == CASE depth = 330 -> 1
                            [] depth = 670 -> 2
                            [] depth = 1000 -> 3
                            [] depth = 1330 -> 4
        IN  /\ c.dark2.c3.num_blocks = base_depth
            /\ c.dark3.c3.num_blocks = 3 * base_depth
            /\ c.dark4.c3.num_blocks = 3 * base_depth
            /\ c.dark5.c3.num_blocks = base_depth
            /\ base_depth >= 1

\* C5 witness: a config was built for depth 1.33, whose product 3.99 rounds
\* up to 4.
C5_Witness ==
    /\ cfg # None
    /\ Unwrap(args).depth = 1330
    /\ Unwrap(cfg).dark3.c3.num_blocks = 12

\* C6: init_with on a block config that has an SppBottleneck config panics
\* with 'Should initialize SppBottleneck block with record.' when the
\* record's spp is None and returns no block; when it is Some, the block's
\* spp is built from that record.
C6_InitWithNeedsSppRecord ==
    blockRecord # None =>
        LET c == Unwrap(blockCfg)
            r == Unwrap(blockRecord)
        IN  /\ (c.spp # None /\ r.spp = None) =>
                  /\ panic = <<"Should initialize SppBottleneck block with record.">>
                  /\ block = None
            /\ (c.spp # None /\ r.spp # None) =>
                  /\ panic = <<>>
                  /\ block # None
                  /\ Unwrap(block).spp
                        = Some([config |-> Unwrap(c.spp),
                                weights |-> <<"record", Unwrap(r.spp)>>])

\* C6 witness: init_with panicked on a record without spp.
C6_Witness ==
    /\ blockRecord # None
    /\ Unwrap(blockCfg).spp # None
    /\ Unwrap(blockRecord).spp = None
    /\ panic # <<>>

\* C7: with c = expand(64, width), the stem maps 3 -> c, dark2 c -> 2c,
\* dark3 2c -> 4c, dark4 4c -> 8c, dark5 8c -> 16c, so each stage's
\* in_channels is the previous stage's out_channels; in every block conv maps
\* in_channels -> out_channels and c3 and spp map out_channels -> out_channels.
C7_ChannelsChain ==
    cfg # None =>
        LET c == Unwrap(cfg)
            bc == expand(64, Unwrap(args).width)
            ins == <<bc, 2 * bc, 4 * bc, 8 * bc>>
            outs == <<2 * bc, 4 * bc, 8 * bc, 16 * bc>>
            blk(i) == c[BlockStages[i]]
        IN  /\ bc > 0
            /\ c.stem.in_channels = 3
            /\ c.stem.out_channels = bc
            /\ blk(1).conv.in_channels = c.stem.out_channels
            /\ \A i \in 2..4 : blk(i).conv.in_channels = blk(i - 1).c3.out_channels
            /\ \A i \in 1..4 :
                  /\ blk(i).conv.in_channels = ins[i]
                  /\ blk(i).conv.out_channels = outs[i]
                  /\ blk(i).c3.in_channels = outs[i]
                  /\ blk(i).c3.out_channels = outs[i]
                  /\ blk(i).spp # None =>
                        /\ Unwrap(blk(i).spp).in_channels = outs[i]
                        /\ Unwrap(blk(i).spp).out_channels = outs[i]

\* C7 witness: a config was built for width 0.375, where c = 24.
C7_Witness ==
    /\ cfg # None
    /\ Unwrap(args).width = 375
    /\ Unwrap(cfg).dark5.conv = [kind |-> "BaseConv", in_channels |-> 192,
                                 out_channels |-> 384, kernel_size |-> 3,
                                 stride |-> 2, groups |-> 1]

====
